---- MODULE Spec2Model ----
(***************************************************************************)
(* Model of the satorama propagation worker (src/src/workers/              *)
(* sgp4-worker.js) and of the consumer-side extrapolation in               *)
(* src/src/app.js.                                                         *)
(*                                                                         *)
(* Units.  Wall-clock and simulation times are whole milliseconds.  The    *)
(* speed multiplier is held in TENTHS (timeMultiplier = 10 is 1x, 1 is     *)
(* 0.1x, -10 is -1x) so that fractional multipliers are representable in   *)
(* integer arithmetic.  Float32 rounding of positions is not modelled.     *)
(*                                                                         *)
(* Arrays are 1-based sequences: JavaScript element j is element j+1.      *)
(***************************************************************************)
EXTENDS Integers, Sequences, FiniteSets, TLC

VARIABLES
  \* ---- worker state (sgp4-worker.js, module-level lets) ----
  satrecs,                \* sequence of BOOLEAN: the `valid' flag of each slot
  slotNames,              \* the `name' of each slot's record
  positions,              \* working buffer: [isNull, data], data has 3 entries per body
  velocities,             \* working buffer: [isNull, data]
  transferBufferA,        \* [positions |-> typed array, velocities |-> typed array]
  transferBufferB,
  useBufferA,
  currentPhysicsInterval,
  physicsTimer,           \* [active, interval]: the setInterval handle
  liveTimers,             \* intervals set by setInterval and not cleared
  lastPhysicsTime,
  simulationTime,
  timeMultiplier,         \* in tenths
  isPaused,
  \* ---- environment ----
  now,                    \* performance.now(), shared wall clock
  \* ---- observation of the handler that ran last ----
  posted,                 \* messages posted by the worker during that handler, in order
  lastEvent,              \* what that handler was and did (see Commit)
  \* ---- history ----
  stopped,                \* a stop was handled and no init since
  sendsSinceResize,       \* snapshots sent since the last init/addSatellite (saturating)
  prevSnapshot,           \* positions payload of the most recent snapshot posted
  \* ---- consumer state (app.js) ----
  workerData,             \* [positions, velocities, receiveTime, timeMultiplier]
  satellites,             \* sequence of [workerIndex, type, name]
  meshPosition,           \* satellite.mesh.position per satellite, in 1e-4 km
  satelliteTypes,         \* settings.satelliteTypes: type -> visible
  followTarget,           \* index into satellites of the followed one, 0 for none
  \* ---- app state (app.js, time-controller.js) ----
  sgp4Worker,             \* whether this.sgp4Worker is set
  timeController,         \* [current, multiplier, lastFrameTime, isPaused]
  stats,                  \* [lastWorkerTimeSync]
  speedChange,            \* history: [issued, at, wasPaused] of the last setTimeSpeed
  \* ---- Keplerian propagator (keplerian-propagator.js) ----
  kepler,                 \* the last call of an exported function: [op, input, result]
  \* ---- history of the time controller (time-controller.js) ----
  pausedWall,             \* wall time spent paused since the last update(), ms
  \* ---- history of the snapshot held by the app ----
  snapshotFor,            \* the worker's slot names when the snapshot in workerData was sent
  \* ---- constellations (app.js) ----
  loadedConstellations,   \* this.loadedConstellations: ids in insertion order
  toggled,                \* the last toggleConstellation call: [id, returned, threw]
  \* ---- ground track (ground-track.js) ----
  track                   \* the last sampleTrackAdaptive call: [op, input, result]

workerVars == <<satrecs, slotNames, positions, velocities, transferBufferA, transferBufferB,
                useBufferA, currentPhysicsInterval, physicsTimer, liveTimers, lastPhysicsTime,
                simulationTime, timeMultiplier, isPaused>>

vars == <<satrecs, slotNames, positions, velocities, transferBufferA, transferBufferB,
          useBufferA, currentPhysicsInterval, physicsTimer, liveTimers, lastPhysicsTime,
          simulationTime, timeMultiplier, isPaused, now, posted, lastEvent,
          stopped, sendsSinceResize, prevSnapshot,
          workerData, satellites, meshPosition, satelliteTypes, followTarget,
          sgp4Worker, timeController, stats, speedChange, kepler, pausedWall, snapshotFor,
          loadedConstellations, toggled, track>>

keplerVars == <<kepler>>

clockVars == <<pausedWall>>

deliveryVars == <<snapshotFor>>

presetVars == <<loadedConstellations, toggled>>

trackVars == <<track>>

historyVars == <<stopped, sendsSinceResize, prevSnapshot>>

consumerVars == <<workerData, satellites, meshPosition, satelliteTypes, followTarget>>

appVars == <<sgp4Worker, timeController, stats, speedChange>>

(***************************************************************************)
(* Bounds                                                                  *)
(***************************************************************************)
MaxBodies == 2          \* largest tracked set
MaxNow == 2             \* wall-clock horizon, ms
MaxCount == 2           \* saturation of sendsSinceResize
MaxFailing == 1         \* propagate calls that fail within one propagateAll
MaxTenths == 30         \* range of multipliers (tenths) fed to the interval policy

\* Multipliers the main thread sends (tenths): -1x, 0x, 1x, 10x, 1000x.
Multipliers == {-10, 0, 10, 100, 10000}

\* Multipliers (tenths) for the interval policy alone: -3x .. 3x in steps of
\* 0.1, and 10000x in both directions.
IntervalInputs == (-MaxTenths..MaxTenths) \cup {-100000, 100000}

\* Timestamps carried by setTime messages.
TimeTargets == {250}

\* What one call of the external satellite.propagate can do.
Outcomes == {"ok", "throws", "none"}

(***************************************************************************)
(* Program constants                                                       *)
(***************************************************************************)
BASE_PHYSICS_INTERVAL == 100
MIN_PHYSICS_INTERVAL == 16
MAX_PHYSICS_INTERVAL == 200

(***************************************************************************)
(* Helpers                                                                 *)
(***************************************************************************)
Abs(x) == IF x < 0 THEN -x ELSE x
Max(a, b) == IF a >= b THEN a ELSE b
Min(a, b) == IF a <= b THEN a ELSE b

\* A Float32Array working buffer.
NullArray == [isNull |-> TRUE, data |-> <<>>]
NewFloat32Array(n) == [isNull |-> FALSE, data |-> [k \in 1..n |-> 0]]

\* A Float32Array used for transfer: only its length and whether its
\* ArrayBuffer has been detached by postMessage matter to the worker.
NullTransfer == [isNull |-> TRUE, len |-> 0, detached |-> FALSE]
NewTransfer(n) == [isNull |-> FALSE, len |-> n, detached |-> FALSE]
Detached == [isNull |-> FALSE, len |-> 0, detached |-> TRUE]
ByteLength(a) == IF a.detached THEN 0 ELSE 4 * a.len

NoTimer == [active |-> FALSE, interval |-> 0]

\* The external SGP4 propagator, abstracted: a position and a velocity that
\* identify the body and the time they were computed for.  A valid body's
\* position is never the all-zero sentinel.
SatPosition(i, t) == <<7000 * i, t, -t>>
SatVelocity(i, t) == <<i, 7 - t, 3>>

(***************************************************************************)
(* The worker as a record, so that the functions of sgp4-worker.js can be  *)
(* composed in the order the code calls them.  posted/allocs/tickRan/      *)
(* threw/outcomes accumulate what the running handler does; tleName is the *)
(* name of the record an addSatellite message carries.                     *)
(***************************************************************************)
Worker ==
  [satrecs |-> satrecs, names |-> slotNames,
   positions |-> positions, velocities |-> velocities,
   transferBufferA |-> transferBufferA, transferBufferB |-> transferBufferB,
   useBufferA |-> useBufferA, currentPhysicsInterval |-> currentPhysicsInterval,
   physicsTimer |-> physicsTimer, liveTimers |-> liveTimers,
   lastPhysicsTime |-> lastPhysicsTime,
   simulationTime |-> simulationTime, timeMultiplier |-> timeMultiplier,
   isPaused |-> isPaused,
   posted |-> <<>>, allocs |-> 0, tickRan |-> FALSE, threw |-> FALSE,
   outcomes |-> <<>>, ref |-> 0, wasPaused |-> isPaused, arg |-> 0,
   tleName |-> 0,
   sends |-> sendsSinceResize, lastSnapshot |-> prevSnapshot]

\* Outcome of satellite.propagate for every slot of a body set; an invalid
\* slot is never propagated.
OutcomeMaps(recs) ==
  {f \in [1..Len(recs) -> Outcomes \cup {"skipped"}] :
     /\ \A i \in 1..Len(recs) : (f[i] = "skipped") <=> ~recs[i]
     /\ Cardinality({i \in 1..Len(recs) : f[i] \in {"throws", "none"}}) <= MaxFailing}

\* Every propagate call succeeds.
AllOk(recs) == [i \in 1..Len(recs) |-> IF recs[i] THEN "ok" ELSE "skipped"]

\* Body (1-based) and component (1..3) of flat array element k (1-based).
BodyOf(k) == ((k - 1) \div 3) + 1
CompOf(k) == ((k - 1) % 3) + 1

\* Mutant of propagateAll: a failed propagate call zeroes the body's entry
\* instead of keeping the previous one.
propagateAll_ZeroOnFailure(w, date, out) ==
  IF Len(w.satrecs) = 0 THEN [w EXCEPT !.outcomes = out]
  ELSE
    [w EXCEPT
       !.positions.data =
          [k \in 1..Len(@) |->
             IF ~w.satrecs[BodyOf(k)] THEN 0
             ELSE IF out[BodyOf(k)] = "ok"
                  THEN SatPosition(BodyOf(k), date)[CompOf(k)]
                  ELSE 0],
       !.velocities.data =
          [k \in 1..Len(@) |->
             IF w.satrecs[BodyOf(k)] /\ out[BodyOf(k)] = "ok"
             THEN SatVelocity(BodyOf(k), date)[CompOf(k)]
             ELSE @[k]],
       !.outcomes = out]

\* Mutant of propagateAll: a record that did not parse is propagated like a
\* valid one instead of being set to the origin.
propagateAll_NoValidCheck(w, date, out) ==
  IF Len(w.satrecs) = 0 THEN [w EXCEPT !.outcomes = out]
  ELSE
    [w EXCEPT
       !.positions.data =
          [k \in 1..Len(@) |->
             IF out[BodyOf(k)] \in {"ok", "skipped"}
             THEN SatPosition(BodyOf(k), date)[CompOf(k)]
             ELSE @[k]],
       !.velocities.data =
          [k \in 1..Len(@) |->
             IF out[BodyOf(k)] \in {"ok", "skipped"}
             THEN SatVelocity(BodyOf(k), date)[CompOf(k)]
             ELSE @[k]],
       !.outcomes = out]

\* propagateAll(date): the outcome of each propagate call is `out'.
propagateAll(w, date, out) ==
  IF Len(w.satrecs) = 0 THEN [w EXCEPT !.outcomes = out]
  ELSE
    [w EXCEPT
       !.positions.data =
          [k \in 1..Len(@) |->
             IF ~w.satrecs[BodyOf(k)] THEN 0
             ELSE IF out[BodyOf(k)] = "ok"
                  THEN SatPosition(BodyOf(k), date)[CompOf(k)]
                  ELSE @[k]],
       !.velocities.data =
          [k \in 1..Len(@) |->
             IF w.satrecs[BodyOf(k)] /\ out[BodyOf(k)] = "ok"
             THEN SatVelocity(BodyOf(k), date)[CompOf(k)]
             ELSE @[k]],
       !.outcomes = out]

PositionsMsg(pos, vel, time, mult) ==
  [type |-> "positions", positions |-> pos, velocities |-> vel,
   time |-> time, timeMultiplier |-> mult]

\* A transfer array after Float32Array.prototype.set(src): the copy throws
\* when the target is null, detached or shorter than the source.
SetThrows(target, src) ==
  target.isNull \/ target.detached \/ target.len < Len(src)

\* Payload of a transfer array of length n after set(src): a transfer array
\* that was not detached has never been written, so the rest is zero.
Payload(n, src) == [k \in 1..n |-> IF k <= Len(src) THEN src[k] ELSE 0]

\* Mutant of sendPositionUpdate: a neutered buffer is not detected.
sendPositionUpdate_NoNeuterCheck(w) ==
  LET buffer == IF w.useBufferA THEN w.transferBufferA ELSE w.transferBufferB
      realloc == buffer.positions.isNull
      bufferSize == Len(w.positions.data)
      b1 == IF realloc
            THEN [positions |-> NewTransfer(bufferSize),
                  velocities |-> NewTransfer(bufferSize)]
            ELSE buffer
      throws == SetThrows(b1.positions, w.positions.data)
                \/ SetThrows(b1.velocities, w.velocities.data)
      sent == [positions |-> Detached, velocities |-> Detached]
      b2 == IF throws THEN b1 ELSE sent
      w1 == [w EXCEPT
               !.transferBufferA = IF w.useBufferA THEN b2 ELSE @,
               !.transferBufferB = IF w.useBufferA THEN @ ELSE b2,
               !.allocs = @ + (IF realloc THEN 2 ELSE 0)]
  IN IF throws
     THEN [w1 EXCEPT !.threw = TRUE]
     ELSE [w1 EXCEPT
             !.posted = Append(@, PositionsMsg(
                           Payload(b1.positions.len, w.positions.data),
                           Payload(b1.velocities.len, w.velocities.data),
                           w.simulationTime, w.timeMultiplier)),
             !.lastSnapshot = Payload(b1.positions.len, w.positions.data),
             !.sends = Min(@ + 1, MaxCount),
             !.useBufferA = ~w.useBufferA]

sendPositionUpdate(w) ==
  LET buffer == IF w.useBufferA THEN w.transferBufferA ELSE w.transferBufferB
      realloc == buffer.positions.isNull \/ ByteLength(buffer.positions) = 0
      bufferSize == Len(w.positions.data)
      b1 == IF realloc
            THEN [positions |-> NewTransfer(bufferSize),
                  velocities |-> NewTransfer(bufferSize)]
            ELSE buffer
      throws == SetThrows(b1.positions, w.positions.data)
                \/ SetThrows(b1.velocities, w.velocities.data)
      sent == [positions |-> Detached, velocities |-> Detached]
      b2 == IF throws THEN b1 ELSE sent
      w1 == [w EXCEPT
               !.transferBufferA = IF w.useBufferA THEN b2 ELSE @,
               !.transferBufferB = IF w.useBufferA THEN @ ELSE b2,
               !.allocs = @ + (IF realloc THEN 2 ELSE 0)]
  IN IF throws
     THEN [w1 EXCEPT !.threw = TRUE]
     ELSE [w1 EXCEPT
             !.posted = Append(@, PositionsMsg(
                           Payload(b1.positions.len, w.positions.data),
                           Payload(b1.velocities.len, w.velocities.data),
                           w.simulationTime, w.timeMultiplier)),
             !.lastSnapshot = Payload(b1.positions.len, w.positions.data),
             !.sends = Min(@ + 1, MaxCount),
             !.useBufferA = ~w.useBufferA]

\* Mutant of physicsTick: the pause check is missing.
physicsTick_NoPauseCheck(w, out) ==
  LET realDelta == now - w.lastPhysicsTime
      simDelta == (realDelta * w.timeMultiplier) \div 10
      w1 == [w EXCEPT !.lastPhysicsTime = now,
                      !.simulationTime = @ + simDelta,
                      !.tickRan = TRUE,
                      !.ref = w.lastPhysicsTime]
      w2 == propagateAll(w1, w1.simulationTime, out)
  IN sendPositionUpdate(w2)

\* Mutant of physicsTick: the delta is scaled by the multiplier's magnitude.
physicsTick_AbsMultiplier(w, out) ==
  IF w.isPaused THEN w
  ELSE
    LET realDelta == now - w.lastPhysicsTime
        simDelta == (realDelta * Abs(w.timeMultiplier)) \div 10
        w1 == [w EXCEPT !.lastPhysicsTime = now,
                        !.simulationTime = @ + simDelta,
                        !.tickRan = TRUE,
                        !.ref = w.lastPhysicsTime]
        w2 == propagateAll(w1, w1.simulationTime, out)
    IN sendPositionUpdate(w2)

\* physicsTick(): `out' is what the propagate calls of this tick do.
physicsTick(w, out) ==
  IF w.isPaused THEN w
  ELSE
    LET realDelta == now - w.lastPhysicsTime
        simDelta == (realDelta * w.timeMultiplier) \div 10
        w1 == [w EXCEPT !.lastPhysicsTime = now,
                        !.simulationTime = @ + simDelta,
                        !.tickRan = TRUE,
                        !.ref = w.lastPhysicsTime]
        w2 == propagateAll(w1, w1.simulationTime, out)
    IN sendPositionUpdate(w2)

\* floor(BASE / sqrt(a / 10)) for a multiplier magnitude a in tenths.
FloorScaledInterval(a) ==
  CHOOSE k \in 0..BASE_PHYSICS_INTERVAL :
    /\ k * k * a <= BASE_PHYSICS_INTERVAL * BASE_PHYSICS_INTERVAL * 10
    /\ (k + 1) * (k + 1) * a > BASE_PHYSICS_INTERVAL * BASE_PHYSICS_INTERVAL * 10

\* Mutant of calculatePhysicsInterval: no base interval for magnitudes up to
\* 1x, the clamped formula is used throughout.
calculatePhysicsInterval_NoBase(w) ==
  LET absMultiplier == Abs(w.timeMultiplier)
  IN IF absMultiplier = 0 THEN MAX_PHYSICS_INTERVAL
     ELSE IF absMultiplier < 10 THEN MAX_PHYSICS_INTERVAL
     ELSE Max(MIN_PHYSICS_INTERVAL,
              Min(MAX_PHYSICS_INTERVAL, FloorScaledInterval(absMultiplier)))

\* calculatePhysicsInterval(), in whole milliseconds (the timer's resolution).
calculatePhysicsInterval(w) ==
  LET absMultiplier == Abs(w.timeMultiplier)
  IN IF absMultiplier <= 10 THEN BASE_PHYSICS_INTERVAL
     ELSE Max(MIN_PHYSICS_INTERVAL,
              Min(MAX_PHYSICS_INTERVAL, FloorScaledInterval(absMultiplier)))

ConfigMsg(interval) == [type |-> "config", physicsInterval |-> interval]

startPhysics(w, out) ==
  IF w.physicsTimer.active THEN w
  ELSE
    LET interval == calculatePhysicsInterval(w)
        w1 == [w EXCEPT !.currentPhysicsInterval = interval,
                        !.lastPhysicsTime = now,
                        !.physicsTimer = [active |-> TRUE, interval |-> interval],
                        !.liveTimers = @ + 1,
                        !.posted = Append(@, ConfigMsg(interval))]
    IN physicsTick(w1, out)

\* Mutant of stopPhysics: the handle is forgotten but the interval is not
\* cleared.
stopPhysics_NoClear(w) ==
  IF w.physicsTimer.active
  THEN [w EXCEPT !.physicsTimer = NoTimer]
  ELSE w

\* stopPhysics(): clearInterval ends the interval the handle names.
stopPhysics(w) ==
  IF w.physicsTimer.active
  THEN [w EXCEPT !.physicsTimer = NoTimer, !.liveTimers = @ - 1]
  ELSE w

\* Mutant of restartPhysics: the running interval is not cleared first.
restartPhysics_NoStop(w) ==
  LET newInterval == calculatePhysicsInterval(w)
  IN IF newInterval # w.currentPhysicsInterval
     THEN [w EXCEPT
             !.currentPhysicsInterval = newInterval,
             !.lastPhysicsTime = now,
             !.physicsTimer = [active |-> TRUE, interval |-> newInterval],
             !.liveTimers = @ + 1,
             !.posted = Append(@, ConfigMsg(newInterval))]
     ELSE w

\* Mutant of restartPhysics: the loop is restarted whether or not the
\* interval changed.
restartPhysics_Unconditional(w) ==
  LET newInterval == calculatePhysicsInterval(w)
  IN [stopPhysics(w) EXCEPT
        !.currentPhysicsInterval = newInterval,
        !.lastPhysicsTime = now,
        !.physicsTimer = [active |-> TRUE, interval |-> newInterval],
        !.liveTimers = @ + 1,
        !.posted = Append(@, ConfigMsg(newInterval))]

restartPhysics(w) ==
  LET newInterval == calculatePhysicsInterval(w)
  IN IF newInterval # w.currentPhysicsInterval
     THEN [stopPhysics(w) EXCEPT
             !.currentPhysicsInterval = newInterval,
             !.lastPhysicsTime = now,
             !.physicsTimer = [active |-> TRUE, interval |-> newInterval],
             !.liveTimers = @ + 1,
             !.posted = Append(@, ConfigMsg(newInterval))]
     ELSE w

\* Mutant of initSatellites: the transfer buffers are allocated with room for
\* one more body than the set has.
initSatellites_TransferCapacity(w, tles, out) ==
  LET bufferSize == Len(tles) * 3
      w1 == [w EXCEPT
               !.satrecs = tles,
               !.names = [i \in 1..Len(tles) |-> i],
               !.positions = NewFloat32Array(bufferSize),
               !.velocities = NewFloat32Array(bufferSize),
               !.transferBufferA = [positions |-> NewTransfer(bufferSize + 3),
                                    velocities |-> NewTransfer(bufferSize + 3)],
               !.transferBufferB = [positions |-> NewTransfer(bufferSize + 3),
                                    velocities |-> NewTransfer(bufferSize + 3)],
               !.useBufferA = TRUE,
               !.sends = 0]
      w2 == propagateAll(w1, w1.simulationTime, out)
  IN [w2 EXCEPT !.posted = Append(@, [type |-> "initialized", count |-> Len(tles)])]

\* initSatellites(tleDataArray): tles[i] tells whether record i parses; a
\* record is named by its place in the array.
initSatellites(w, tles, out) ==
  LET bufferSize == Len(tles) * 3
      w1 == [w EXCEPT
               !.satrecs = tles,
               !.names = [i \in 1..Len(tles) |-> i],
               !.positions = NewFloat32Array(bufferSize),
               !.velocities = NewFloat32Array(bufferSize),
               !.transferBufferA = [positions |-> NewTransfer(bufferSize),
                                    velocities |-> NewTransfer(bufferSize)],
               !.transferBufferB = [positions |-> NewTransfer(bufferSize),
                                    velocities |-> NewTransfer(bufferSize)],
               !.useBufferA = TRUE,
               !.sends = 0]
      w2 == propagateAll(w1, w1.simulationTime, out)
  IN [w2 EXCEPT !.posted = Append(@, [type |-> "initialized", count |-> Len(tles)])]

\* Float32Array.prototype.set(old) into a fresh array of length n.
CopyInto(n, old) ==
  [k \in 1..n |-> IF ~old.isNull /\ k <= Len(old.data) THEN old.data[k] ELSE 0]

\* Mutant of addSatellite: the existing data is not copied into the new
\* working buffers.
addSatellite_NoCopy(w, parses, outcome) ==
  LET recs == Append(w.satrecs, parses)
      newBufferSize == Len(recs) * 3
      idx == Len(recs)
      newPositions == CopyInto(newBufferSize, NullArray)
      newVelocities == CopyInto(newBufferSize, NullArray)
      hit == parses /\ outcome = "ok"
  IN [w EXCEPT
        !.satrecs = recs,
        !.names = Append(@, w.tleName),
        !.positions = [isNull |-> FALSE,
                       data |-> [k \in 1..newBufferSize |->
                                   IF hit /\ BodyOf(k) = idx
                                   THEN SatPosition(idx, w.simulationTime)[CompOf(k)]
                                   ELSE newPositions[k]]],
        !.velocities = [isNull |-> FALSE,
                        data |-> [k \in 1..newBufferSize |->
                                    IF hit /\ BodyOf(k) = idx
                                    THEN SatVelocity(idx, w.simulationTime)[CompOf(k)]
                                    ELSE newVelocities[k]]],
        !.transferBufferA = [positions |-> NewTransfer(newBufferSize),
                             velocities |-> NewTransfer(newBufferSize)],
        !.transferBufferB = [positions |-> NewTransfer(newBufferSize),
                             velocities |-> NewTransfer(newBufferSize)],
        !.sends = 0,
        !.posted = Append(@, [type |-> "satelliteAdded", index |-> idx - 1])]

\* addSatellite(tleData): parses tells whether the record parses, outcome
\* what the immediate propagate call does.
addSatellite(w, parses, outcome) ==
  LET recs == Append(w.satrecs, parses)
      newBufferSize == Len(recs) * 3
      idx == Len(recs)
      newPositions == CopyInto(newBufferSize, w.positions)
      newVelocities == CopyInto(newBufferSize, w.velocities)
      hit == parses /\ outcome = "ok"
  IN [w EXCEPT
        !.satrecs = recs,
        !.names = Append(@, w.tleName),
        !.positions = [isNull |-> FALSE,
                       data |-> [k \in 1..newBufferSize |->
                                   IF hit /\ BodyOf(k) = idx
                                   THEN SatPosition(idx, w.simulationTime)[CompOf(k)]
                                   ELSE newPositions[k]]],
        !.velocities = [isNull |-> FALSE,
                        data |-> [k \in 1..newBufferSize |->
                                    IF hit /\ BodyOf(k) = idx
                                    THEN SatVelocity(idx, w.simulationTime)[CompOf(k)]
                                    ELSE newVelocities[k]]],
        !.transferBufferA = [positions |-> NewTransfer(newBufferSize),
                             velocities |-> NewTransfer(newBufferSize)],
        !.transferBufferB = [positions |-> NewTransfer(newBufferSize),
                             velocities |-> NewTransfer(newBufferSize)],
        !.sends = 0,
        !.posted = Append(@, [type |-> "satelliteAdded", index |-> idx - 1])]

(***************************************************************************)
(* self.onmessage, one operator per case of the switch                     *)
(***************************************************************************)
onInit(w, tles, out1, out2) ==
  startPhysics(initSatellites([w EXCEPT !.arg = Len(tles)], tles, out1), out2)

\* Mutant of the setTime case: the snapshot is sent only while the loop runs.
onSetTime_SendOnlyRunning(w, time, out) ==
  LET w1 == [w EXCEPT !.simulationTime = time, !.lastPhysicsTime = now,
                      !.arg = time]
      w2 == propagateAll(w1, w1.simulationTime, out)
  IN IF ~w2.positions.isNull /\ w2.physicsTimer.active /\ ~w2.isPaused
     THEN sendPositionUpdate(w2) ELSE w2

onSetTime(w, time, out) ==
  LET w1 == [w EXCEPT !.simulationTime = time, !.lastPhysicsTime = now,
                      !.arg = time]
      w2 == propagateAll(w1, w1.simulationTime, out)
  IN IF ~w2.positions.isNull THEN sendPositionUpdate(w2) ELSE w2

\* Mutant of the setTimeMultiplier case: the loop is restarted whether or not
\* a timer is active.
onSetTimeMultiplier_NoTimerCheck(w, multiplier) ==
  LET w1 == [w EXCEPT !.timeMultiplier = multiplier, !.arg = multiplier]
  IN IF ~w1.isPaused THEN restartPhysics(w1) ELSE w1

onSetTimeMultiplier(w, multiplier) ==
  LET w1 == [w EXCEPT !.timeMultiplier = multiplier, !.arg = multiplier]
  IN IF w1.physicsTimer.active /\ ~w1.isPaused THEN restartPhysics(w1) ELSE w1

onPause(w) == [w EXCEPT !.isPaused = TRUE]

\* Mutant of the resume case: the reference point is not reset.
onResume_KeepReference(w) ==
  [w EXCEPT !.isPaused = FALSE, !.ref = w.lastPhysicsTime]

onResume(w) ==
  [w EXCEPT !.isPaused = FALSE, !.lastPhysicsTime = now, !.ref = w.lastPhysicsTime]

onStop(w) == stopPhysics(w)

onAddSatellite(w, parses, outcome) == addSatellite(w, parses, outcome)

\* Mutant of the default case: an unknown type is answered with an error message.
onUnknown_Reports(w) == [w EXCEPT !.posted = Append(@, [type |-> "error"])]

\* default: the message is ignored.
onUnknown(w) == w

(***************************************************************************)
(* Consumer side (app.js)                                                  *)
(***************************************************************************)
Types == {"LEO", "GEO"}

\* sgp4Worker.onmessage, case 'positions'.
onPositions(wd, msg) ==
  [wd EXCEPT !.positions = [isNull |-> FALSE, data |-> msg.positions],
             !.velocities = [isNull |-> FALSE, data |-> msg.velocities],
             !.receiveTime = now,
             !.timeMultiplier = msg.timeMultiplier]

\* The position written when the indices read lie past the end of the
\* snapshot arrays: the reads give undefined, the zero test fails, and the
\* coordinates assigned are undefined or NaN.
NotANumber == <<>>

\* TEME (x, y, z) to Three.js (x, z, -y).
ToThree(p) == <<p[1], p[3], -p[2]>>

\* Mutant of applyOne: the all-zero entry is not skipped.
applyOne_NoSentinelSkip(sat, isFollowed, typeVisible, pos, vel, dtSimNum, old) ==
  LET hasVelocity == ~vel.isNull /\ dtSimNum > 0
      i3 == sat.workerIndex * 3
      teme == [c \in 1..3 |-> pos.data[i3 + c]]
      isVisible == isFollowed \/ typeVisible[sat.type]
      moved == [c \in 1..3 |->
                  IF hasVelocity
                  THEN teme[c] * 10000 + vel.data[i3 + c] * dtSimNum
                  ELSE teme[c] * 10000]
  IN IF ~isVisible THEN old
     ELSE IF i3 + 3 > Len(pos.data) THEN NotANumber
     ELSE ToThree(moved)

\* applySatellitePositions for one satellite.  dtSimNum is dtSim * 10000:
\* elapsed milliseconds times the multiplier in tenths; the stored position
\* is in 1e-4 km so that P + V * dtSim stays an integer.
applyOne(sat, isFollowed, typeVisible, pos, vel, dtSimNum, old) ==
  LET hasVelocity == ~vel.isNull /\ dtSimNum > 0
      i3 == sat.workerIndex * 3
      teme == [c \in 1..3 |-> pos.data[i3 + c]]
      isVisible == isFollowed \/ typeVisible[sat.type]
      moved == [c \in 1..3 |->
                  IF hasVelocity
                  THEN teme[c] * 10000 + vel.data[i3 + c] * dtSimNum
                  ELSE teme[c] * 10000]
  IN IF ~isVisible THEN old
     ELSE IF i3 + 3 > Len(pos.data) THEN NotANumber
     ELSE IF teme[1] = 0 /\ teme[2] = 0 /\ teme[3] = 0 THEN old
     ELSE ToThree(moved)

applySatellitePositions(pos, vel, dtSimNum) ==
  [i \in 1..Len(satellites) |->
     applyOne(satellites[i], i = followTarget, satelliteTypes, pos, vel,
              dtSimNum, meshPosition[i])]

\* updateSatellitePositionsFromWorker(now): the mesh positions after it.
updateSatellitePositionsFromWorker(wd) ==
  IF wd.positions.isNull THEN meshPosition
  ELSE applySatellitePositions(wd.positions, wd.velocities,
                               (now - wd.receiveTime) * wd.timeMultiplier)

(***************************************************************************)
(* State machine                                                           *)
(***************************************************************************)
\* lastEvent: type and wall time of the handler that ran last; whether
\* physicsTick ran past its pause check in it; Float32Arrays allocated by
\* sendPositionUpdate in it; whether it ended by an exception; what its last
\* propagateAll met; the reference point (lastPhysicsTime) a tick or resume
\* replaced; whether the worker was paused when it started; the timestamp,
\* multiplier or number of records the message carried (arg); and, when the
\* handler before it was a resume, that resume's
\* <<time, replaced reference point, whether it ended a pause>>.
NoEvent == [type |-> "load", at |-> 0, tickRan |-> FALSE, allocs |-> 0,
            threw |-> FALSE, outcomes |-> <<>>, ref |-> 0, wasPaused |-> FALSE,
            arg |-> 0, resumed |-> <<>>]

\* The worker script as loaded: the module-level initialisers and the
\* config message posted by the last line of the script.
WorkerLoaded ==
  /\ satrecs = <<>>
  /\ slotNames = <<>>
  /\ positions = NullArray
  /\ velocities = NullArray
  /\ transferBufferA = [positions |-> NullTransfer, velocities |-> NullTransfer]
  /\ transferBufferB = [positions |-> NullTransfer, velocities |-> NullTransfer]
  /\ useBufferA = TRUE
  /\ currentPhysicsInterval = BASE_PHYSICS_INTERVAL
  /\ physicsTimer = NoTimer
  /\ liveTimers = 0
  /\ lastPhysicsTime = 0
  /\ simulationTime = 0
  /\ timeMultiplier = 10
  /\ isPaused = FALSE
  /\ posted = <<ConfigMsg(BASE_PHYSICS_INTERVAL)>>
  /\ lastEvent = NoEvent
  /\ stopped = FALSE
  /\ sendsSinceResize = 0
  /\ prevSnapshot = <<>>

\* The app as constructed, with one satellite of each type in its list.
AppConstructed ==
  /\ workerData = [positions |-> NullArray, velocities |-> NullArray,
                   receiveTime |-> 0, timeMultiplier |-> 10]
  /\ satellites = <<[workerIndex |-> 0, type |-> "LEO", name |-> 1],
                    [workerIndex |-> 1, type |-> "GEO", name |-> 2]>>
  /\ meshPosition = [i \in 1..2 |-> <<0, 0, 0>>]
  /\ satelliteTypes = [t \in Types |-> TRUE]
  /\ followTarget = 0
  /\ sgp4Worker = FALSE
  /\ timeController = [current |-> 0, multiplier |-> 10, lastFrameTime |-> 0,
                       isPaused |-> FALSE]
  /\ stats = [lastWorkerTimeSync |-> 0]
  /\ speedChange = [issued |-> FALSE, at |-> 0, wasPaused |-> FALSE]

\* keplerian-propagator.js keeps no state; nothing has been called yet.
KeplerLoaded == kepler = [op |-> "none"]

\* The TimeController as constructed: no wall time has passed.
ClockConstructed == pausedWall = 0

\* The app holds no snapshot yet.
NothingReceived == snapshotFor = <<>>

\* sampleTrackAdaptive has not been called.
NoTrack == track = [op |-> "none"]

\* No constellation is loaded and toggleConstellation has not been called.
NoConstellations ==
  /\ loadedConstellations = <<>>
  /\ toggled = [id |-> "none", returned |-> FALSE, threw |-> FALSE]

Init == WorkerLoaded /\ AppConstructed /\ KeplerLoaded /\ ClockConstructed /\ NothingReceived /\ NoConstellations /\ NoTrack /\ now = 0

\* The worker's state, and what is recorded of the handler, after the
\* handler of an event of the given type has returned.
WorkerHandled(w, type) ==
  /\ satrecs' = w.satrecs
  /\ slotNames' = w.names
  /\ UNCHANGED keplerVars
  /\ UNCHANGED clockVars
  /\ UNCHANGED trackVars
  /\ positions' = w.positions
  /\ velocities' = w.velocities
  /\ transferBufferA' = w.transferBufferA
  /\ transferBufferB' = w.transferBufferB
  /\ useBufferA' = w.useBufferA
  /\ currentPhysicsInterval' = w.currentPhysicsInterval
  /\ physicsTimer' = w.physicsTimer
  /\ liveTimers' = w.liveTimers
  /\ lastPhysicsTime' = w.lastPhysicsTime
  /\ simulationTime' = w.simulationTime
  /\ timeMultiplier' = w.timeMultiplier
  /\ isPaused' = w.isPaused
  /\ posted' = w.posted
  /\ lastEvent' = [type |-> type, at |-> now, tickRan |-> w.tickRan,
                   allocs |-> w.allocs, threw |-> w.threw,
                   outcomes |-> w.outcomes, ref |-> w.ref,
                   wasPaused |-> w.wasPaused, arg |-> w.arg,
                   resumed |-> IF lastEvent.type = "resume"
                               THEN <<lastEvent.at, lastEvent.ref, lastEvent.wasPaused>>
                               ELSE <<>>]
  /\ stopped' = IF type = "stop" THEN TRUE
                ELSE IF type \in {"init", "initSGP4Worker"} THEN FALSE ELSE stopped
  /\ sendsSinceResize' = w.sends
  /\ prevSnapshot' = w.lastSnapshot
  /\ now' = now

\* The same, in an event that leaves the loaded constellations alone.
WorkerAfter(w, type) == WorkerHandled(w, type) /\ UNCHANGED presetVars

\* A worker event seen from the worker alone: the main thread is left as it is.
Commit(w, type) == WorkerAfter(w, type) /\ UNCHANGED <<consumerVars, appVars, deliveryVars>>

\* Batches of element records: TRUE parses, FALSE does not.
TleBatches == UNION {[1..n -> BOOLEAN] : n \in 0..MaxBodies}

\* One record that parses.
OneBody == <<TRUE>>

DoInit(tles, out1, out2) == Commit(onInit(Worker, tles, out1, out2), "init")

DoSetTime(time, out) == Commit(onSetTime(Worker, time, out), "setTime")

DoSetTimeMultiplier(multiplier) ==
  Commit(onSetTimeMultiplier(Worker, multiplier), "setTimeMultiplier")

\* The setInterval callback: it can run only while an interval is live.
DoTick(out) == liveTimers > 0 /\ Commit(physicsTick(Worker, out), "tick")

\* ---- the scheduler under every message, with one body that propagates ----
HandleInit == DoInit(OneBody, AllOk(OneBody), AllOk(OneBody))

HandleSetTime == \E time \in TimeTargets : DoSetTime(time, AllOk(satrecs))

HandleSetTimeMultiplier == \E multiplier \in Multipliers : DoSetTimeMultiplier(multiplier)

HandlePause == Commit(onPause(Worker), "pause")

HandleResume == Commit(onResume(Worker), "resume")

HandleStop == Commit(onStop(Worker), "stop")

HandleUnknown == Commit(onUnknown(Worker), "unknown")

TimerFires == DoTick(AllOk(satrecs))

\* Wall time passes.
AdvanceClock ==
  /\ now < MaxNow
  /\ now' = now + 1
  /\ UNCHANGED <<workerVars, keplerVars, clockVars, deliveryVars, presetVars, trackVars, posted, lastEvent, historyVars, consumerVars, appVars>>

Next ==
  \/ HandleInit
  \/ HandleSetTime
  \/ HandleSetTimeMultiplier
  \/ HandlePause
  \/ HandleResume
  \/ HandleStop
  \/ HandleUnknown
  \/ TimerFires
  \/ AdvanceClock

Spec == Init /\ [][Next]_vars

\* ---- body sets, failing propagation and the transfer buffers ----
BodiesInit ==
  \E tles \in TleBatches :
    \E out1 \in OutcomeMaps(tles), out2 \in OutcomeMaps(tles) :
      DoInit(tles, out1, out2)

BodiesSetTime ==
  \E time \in TimeTargets, out \in OutcomeMaps(satrecs) : DoSetTime(time, out)

BodiesAddSatellite ==
  /\ Len(satrecs) < MaxBodies
  /\ \E parses \in BOOLEAN, outcome \in Outcomes :
       Commit(onAddSatellite(Worker, parses, outcome), "addSatellite")

BodiesTick == \E out \in OutcomeMaps(satrecs) : DoTick(out)

NextBodies ==
  \/ BodiesInit
  \/ BodiesSetTime
  \/ BodiesAddSatellite
  \/ BodiesTick
  \/ AdvanceClock

SpecBodies == Init /\ [][NextBodies]_vars

\* ---- the interval policy over a wide range of multipliers ----
IntervalSetTimeMultiplier ==
  \E multiplier \in IntervalInputs : DoSetTimeMultiplier(multiplier)

NextInterval ==
  \/ IntervalSetTimeMultiplier
  \/ HandleInit
  \/ HandleStop

SpecInterval == Init /\ [][NextInterval]_vars

\* ---- the consumer: snapshots arrive, frames render ----
\* Snapshot entries the worker can post for body i: the zero sentinel, or a
\* propagated state.
SnapshotTimes == {250}

BodyStates(i) ==
  {[p |-> <<0, 0, 0>>, v |-> <<0, 0, 0>>]}
    \cup {[p |-> SatPosition(i, t), v |-> SatVelocity(i, t)] : t \in SnapshotTimes}

SnapshotMsgs ==
  {PositionsMsg(b1.p \o b2.p, b1.v \o b2.v, t, m) :
     b1 \in BodyStates(1), b2 \in BodyStates(2), t \in SnapshotTimes, m \in Multipliers}

AppEvent(type) == [NoEvent EXCEPT !.type = type, !.at = now]

ReceivePositions ==
  /\ \E msg \in SnapshotMsgs : workerData' = onPositions(workerData, msg)
  /\ lastEvent' = AppEvent("positions")
  /\ UNCHANGED <<workerVars, keplerVars, clockVars, deliveryVars, presetVars, trackVars, posted, historyVars, now,
                 satellites, meshPosition, satelliteTypes, followTarget, appVars>>

\* One pass of animate(): the extrapolation step.
RenderFrame ==
  /\ meshPosition' = updateSatellitePositionsFromWorker(workerData)
  /\ lastEvent' = AppEvent("frame")
  /\ UNCHANGED <<workerVars, keplerVars, clockVars, deliveryVars, presetVars, trackVars, posted, historyVars, now,
                 workerData, satellites, satelliteTypes, followTarget, appVars>>

ToggleSatelliteType ==
  /\ \E type \in Types, visible \in BOOLEAN :
       satelliteTypes' = [satelliteTypes EXCEPT ![type] = visible]
  /\ lastEvent' = AppEvent("toggleSatelliteType")
  /\ UNCHANGED <<workerVars, keplerVars, clockVars, deliveryVars, presetVars, trackVars, posted, historyVars, now,
                 workerData, satellites, meshPosition, followTarget, appVars>>

SetFollowTarget ==
  /\ \E target \in 0..Len(satellites) : followTarget' = target
  /\ lastEvent' = AppEvent("follow")
  /\ UNCHANGED <<workerVars, keplerVars, clockVars, deliveryVars, presetVars, trackVars, posted, historyVars, now,
                 workerData, satellites, meshPosition, satelliteTypes, appVars>>

NextRender ==
  \/ ReceivePositions
  \/ RenderFrame
  \/ ToggleSatelliteType
  \/ SetFollowTarget
  \/ AdvanceClock

SpecRender == Init /\ [][NextRender]_vars

(***************************************************************************)
(* The app driving its worker (app.js): messages are handled by the worker *)
(* and its replies by the app before the next event of either side.        *)
(***************************************************************************)
MaxAppSteps == 6        \* wall-clock horizon of the app, in clock steps

\* Speeds set from the time controls (tenths): 1x and 11x, one on each side
\* of the re-sync threshold.
AppSpeeds == {10, 110}

\* The tracked set the app loads: two records that parse.
TwoBodies == <<TRUE, TRUE>>

\* animate(): the period of the time re-sync for a multiplier (tenths).
SyncInterval(multiplier) == IF Abs(multiplier) > 100 THEN 100 ELSE 500

\* Resolution of the app's wall clock: the shorter re-sync period.
ClockStep == SyncInterval(110)

\* The worker script freshly loaded at the present time.
LoadedWorker ==
  [Worker EXCEPT
     !.satrecs = <<>>, !.names = <<>>,
     !.positions = NullArray, !.velocities = NullArray,
     !.transferBufferA = [positions |-> NullTransfer, velocities |-> NullTransfer],
     !.transferBufferB = [positions |-> NullTransfer, velocities |-> NullTransfer],
     !.useBufferA = TRUE, !.currentPhysicsInterval = BASE_PHYSICS_INTERVAL,
     !.physicsTimer = NoTimer, !.liveTimers = 0, !.lastPhysicsTime = 0,
     !.simulationTime = now,
     !.timeMultiplier = 10, !.isPaused = FALSE,
     !.posted = <<ConfigMsg(BASE_PHYSICS_INTERVAL)>>,
     !.wasPaused = FALSE, !.sends = 0, !.lastSnapshot = <<>>]

\* sgp4Worker.onmessage applied to the worker's messages in order.
RECURSIVE Deliver(_, _)
Deliver(wd, msgs) ==
  IF msgs = <<>> THEN wd
  ELSE Deliver(IF Head(msgs).type = "positions" THEN onPositions(wd, Head(msgs)) ELSE wd,
               Tail(msgs))

\* Mutant of setSpeed: a zero multiplier unpauses too.
setSpeed_AlwaysUnpause(tc, multiplier) ==
  [tc EXCEPT !.multiplier = multiplier, !.isPaused = FALSE]

\* TimeController.setSpeed, togglePause, update.
setSpeed(tc, multiplier) ==
  [tc EXCEPT !.multiplier = multiplier,
             !.isPaused = IF tc.isPaused /\ multiplier # 0 THEN FALSE ELSE @]

togglePause(tc) == [tc EXCEPT !.isPaused = ~@]

\* TimeController.reset(): the simulation time becomes the present.
reset(tc) == [tc EXCEPT !.current = now]

update(tc) ==
  IF tc.isPaused THEN [tc EXCEPT !.lastFrameTime = now]
  ELSE [tc EXCEPT !.current = @ + ((now - tc.lastFrameTime) * tc.multiplier) \div 10,
                  !.lastFrameTime = now]

\* The replies of the worker, which ends as w, are received by the app: a
\* snapshot among them was sent for the slots the worker has then.
Received(w) ==
  /\ workerData' = Deliver(workerData, w.posted)
  /\ snapshotFor' = IF \E k \in 1..Len(w.posted) : w.posted[k].type = "positions"
                    THEN w.names ELSE snapshotFor

\* An app event in which the worker ends as w: its replies are received.
AppCommit(w, type) ==
  /\ WorkerAfter(w, type)
  /\ Received(w)
  /\ UNCHANGED <<satellites, satelliteTypes, followTarget>>

\* initSGP4Worker(tleData): any old worker is terminated, a new one is
\* created and sent init.
AppInitSGP4Worker ==
  /\ AppCommit(onInit(LoadedWorker, TwoBodies, AllOk(TwoBodies), AllOk(TwoBodies)),
               "initSGP4Worker")
  /\ sgp4Worker' = TRUE
  /\ UNCHANGED <<meshPosition, timeController, stats, speedChange>>

\* Mutant of setTimeSpeed: setTimeMultiplier is posted before setTime.
setTimeSpeed_MultiplierFirst(multiplier) ==
  /\ timeController' = setSpeed(timeController, multiplier)
  /\ AppCommit(IF sgp4Worker
               THEN [onSetTime(onSetTimeMultiplier(Worker, multiplier),
                               timeController.current, AllOk(satrecs))
                       EXCEPT !.arg = multiplier]
               ELSE [Worker EXCEPT !.arg = multiplier], "setTimeSpeed")
  /\ speedChange' = [issued |-> TRUE, at |-> now,
                     wasPaused |-> timeController.isPaused]
  /\ UNCHANGED <<meshPosition, sgp4Worker, stats>>

\* setTimeSpeed(multiplier).  speedChange records when the last speed change
\* was made and whether the time controller was paused before it.
setTimeSpeed(multiplier) ==
  /\ timeController' = setSpeed(timeController, multiplier)
  /\ AppCommit(IF sgp4Worker
               THEN onSetTimeMultiplier(
                      onSetTime(Worker, timeController.current, AllOk(satrecs)),
                      multiplier)
               ELSE [Worker EXCEPT !.arg = multiplier], "setTimeSpeed")
  /\ speedChange' = [issued |-> TRUE, at |-> now,
                     wasPaused |-> timeController.isPaused]
  /\ UNCHANGED <<meshPosition, sgp4Worker, stats>>

AppSetTimeSpeed == \E multiplier \in AppSpeeds : setTimeSpeed(multiplier)

\* toggleTimePause().
AppToggleTimePause ==
  /\ timeController' = togglePause(timeController)
  /\ AppCommit(IF ~sgp4Worker THEN Worker
               ELSE IF timeController'.isPaused THEN onPause(Worker)
               ELSE onResume(Worker), "toggleTimePause")
  /\ UNCHANGED <<meshPosition, sgp4Worker, stats, speedChange>>

\* animate(): the clock update, the extrapolation and the periodic re-sync.
AppAnimate ==
  LET tc == update(timeController)
      due == now - stats.lastWorkerTimeSync >= SyncInterval(tc.multiplier)
  IN /\ timeController' = tc
     /\ meshPosition' = updateSatellitePositionsFromWorker(workerData)
     /\ stats' = IF due THEN [stats EXCEPT !.lastWorkerTimeSync = now] ELSE stats
     /\ AppCommit(IF due /\ sgp4Worker
                  THEN onSetTime(Worker, tc.current, AllOk(satrecs))
                  ELSE Worker, "animate")
     /\ UNCHANGED <<sgp4Worker, speedChange>>

\* The worker's timer fires and the app receives the snapshot.
AppTimerFires ==
  /\ sgp4Worker
  /\ liveTimers > 0
  /\ AppCommit(physicsTick(Worker, AllOk(satrecs)), "tick")
  /\ UNCHANGED <<meshPosition, appVars>>

\* Wall time passes by one step, once the frame of the present instant has run.
AppAdvanceClock ==
  /\ now < MaxAppSteps * ClockStep
  /\ timeController.lastFrameTime = now
  /\ now' = now + ClockStep
  /\ UNCHANGED <<workerVars, keplerVars, clockVars, deliveryVars, presetVars, trackVars, posted, lastEvent, historyVars, consumerVars, appVars>>

\* ---- the app changing speed: worker loads, speed changes, frames, ticks ----
NextApp ==
  \/ AppInitSGP4Worker
  \/ AppSetTimeSpeed
  \/ AppAnimate
  \/ AppTimerFires
  \/ AppAdvanceClock

SpecApp == Init /\ [][NextApp]_vars

\* ---- the app pausing: the pause control is the only one used ----
NextPause ==
  \/ AppInitSGP4Worker
  \/ AppToggleTimePause
  \/ AppAnimate
  \/ AppTimerFires
  \/ AppAdvanceClock

SpecPause == Init /\ [][NextPause]_vars

\* ---- all the time controls: pause, speed, reset, with worker re-creation ----
MaxControlSteps == 1    \* wall-clock horizon with all time controls, in clock steps

\* Speeds the time controls can set (tenths): -1x, 0x, 1x, 11x.
ControlSpeeds == {-10, 0, 10, 110}

ControlsSetTimeSpeed == \E multiplier \in ControlSpeeds : setTimeSpeed(multiplier)

\* resetTime(): the time controller jumps to the present and the worker is
\* sent that time.
AppResetTime ==
  /\ timeController' = reset(timeController)
  /\ AppCommit(IF sgp4Worker
               THEN onSetTime(Worker, timeController'.current, AllOk(satrecs))
               ELSE Worker, "resetTime")
  /\ UNCHANGED <<meshPosition, sgp4Worker, stats, speedChange>>

ControlsAdvanceClock ==
  /\ now < MaxControlSteps * ClockStep
  /\ timeController.lastFrameTime = now
  /\ now' = now + ClockStep
  /\ UNCHANGED <<workerVars, keplerVars, clockVars, deliveryVars, presetVars, trackVars, posted, lastEvent, historyVars, consumerVars, appVars>>

NextControls ==
  \/ AppInitSGP4Worker
  \/ ControlsSetTimeSpeed
  \/ AppToggleTimePause
  \/ AppResetTime
  \/ AppAnimate
  \/ AppTimerFires
  \/ ControlsAdvanceClock

SpecControls == Init /\ [][NextControls]_vars

\* ---- the tracked set: constellations loaded and unloaded, custom TLEs ----
MaxSlots == 3           \* largest number of worker slots with custom TLEs added

\* Non-empty record arrays a rebuild passes on: each record parses or not.
SetBatches == UNION {[1..n -> BOOLEAN] : n \in 1..MaxBodies}

\* The app with nothing loaded yet.
AppEmpty ==
  /\ workerData = [positions |-> NullArray, velocities |-> NullArray,
                   receiveTime |-> 0, timeMultiplier |-> 10]
  /\ satellites = <<>>
  /\ meshPosition = <<>>
  /\ satelliteTypes = [t \in Types |-> TRUE]
  /\ followTarget = 0
  /\ sgp4Worker = FALSE
  /\ timeController = [current |-> 0, multiplier |-> 10, lastFrameTime |-> 0,
                       isPaused |-> FALSE]
  /\ stats = [lastWorkerTimeSync |-> 0]
  /\ speedChange = [issued |-> FALSE, at |-> 0, wasPaused |-> FALSE]

InitSet == WorkerLoaded /\ AppEmpty /\ KeplerLoaded /\ ClockConstructed /\ NothingReceived /\ NoConstellations /\ NoTrack /\ now = 0

\* The satellite objects _rebuildSatellites creates for the records of tles
\* from place i on: one for each record that parses, with its place in the
\* array as workerIndex.
RECURSIVE BuiltFrom(_, _)
BuiltFrom(tles, i) ==
  IF i > Len(tles) THEN <<>>
  ELSE (IF tles[i] THEN <<[workerIndex |-> i - 1, type |-> "LEO", name |-> i]>>
        ELSE <<>>) \o BuiltFrom(tles, i + 1)

\* _rebuildSatellites() with at least one record: the list is rebuilt and
\* the worker re-created with all the records.
RebuildTo(tles) ==
  LET w == onInit(LoadedWorker, tles, AllOk(tles), AllOk(tles))
  IN /\ satellites' = BuiltFrom(tles, 1)
     /\ meshPosition' = [i \in 1..Len(satellites') |-> <<0, 0, 0>>]
     /\ WorkerHandled(w, "initSGP4Worker")
     /\ Received(w)
     /\ sgp4Worker' = TRUE
     /\ UNCHANGED <<satelliteTypes, followTarget, timeController, stats, speedChange>>

SetRebuild == (\E tles \in SetBatches : RebuildTo(tles)) /\ UNCHANGED presetVars

\* _rebuildSatellites() with no constellation left: the list is emptied and
\* the worker, if any, is sent stop.
UnloadAll ==
  LET w == IF sgp4Worker THEN onStop(Worker) ELSE Worker
  IN /\ satellites' = <<>>
     /\ meshPosition' = <<>>
     /\ WorkerHandled(w, IF sgp4Worker THEN "stop" ELSE "unloadAll")
     /\ Received(w)
     /\ UNCHANGED <<satelliteTypes, followTarget, appVars>>

SetUnloadAll == UnloadAll /\ UNCHANGED presetVars

\* addCustomTLE(name, tle1, tle2) with a record that parses: the satellite
\* gets the list's length as workerIndex and the worker is sent addSatellite.
SetAddCustomTLE ==
  /\ Len(satellites) < MaxSlots
  /\ Len(satrecs) < MaxSlots
  /\ LET workerIndex == Len(satellites)
         name == -(workerIndex + 1)
         w == IF sgp4Worker
              THEN onAddSatellite([Worker EXCEPT !.tleName = name], TRUE, "ok")
              ELSE Worker
     IN /\ satellites' = Append(satellites, [workerIndex |-> workerIndex,
                                             type |-> "LEO", name |-> name])
        /\ meshPosition' = Append(meshPosition, <<0, 0, 0>>)
        /\ WorkerAfter(w, "addCustomTLE")
        /\ Received(w)
        /\ UNCHANGED <<satelliteTypes, followTarget, appVars>>

NextSet ==
  \/ SetRebuild
  \/ SetUnloadAll
  \/ SetAddCustomTLE
  \/ AppAnimate
  \/ AppTimerFires
  \/ ControlsAdvanceClock

SpecSet == InitSet /\ [][NextSet]_vars

\* ---- constellations toggled on and off from the preset buttons ----
\* The catalog of presets: the records of each, TRUE for one that parses.
Catalog == [iss |-> <<TRUE>>, gps |-> <<TRUE, TRUE>>, empty |-> <<>>]

\* Ids a caller may pass: those of the catalog and one that is not in it.
PresetIds == DOMAIN Catalog \cup {"unknown"}

\* loadPreset(presetId): throws for an id the catalog does not have.
loadPresetThrows(presetId) == presetId \notin DOMAIN Catalog

\* loadedConstellations.has(id), and the ids left after delete(id).
Has(loaded, id) == \E k \in 1..Len(loaded) : loaded[k] = id
Without(loaded, id) == SelectSeq(loaded, LAMBDA x : x # id)

isConstellationLoaded(constellationId) == Has(loadedConstellations, constellationId)

\* allTleData of _rebuildSatellites: the records of the loaded constellations,
\* in the order of loading.
RECURSIVE AllTleData(_)
AllTleData(loaded) ==
  IF loaded = <<>> THEN <<>>
  ELSE Catalog[Head(loaded)] \o AllTleData(Tail(loaded))

\* _rebuildSatellites() in which satelliteManager.initialize throws: the list
\* has been cleared and the worker has been sent nothing.
RebuildFails ==
  /\ satellites' = <<>>
  /\ meshPosition' = <<>>
  /\ WorkerHandled(Worker, "rebuildFailed")
  /\ Received(Worker)
  /\ UNCHANGED <<satelliteTypes, followTarget, appVars>>

\* _rebuildSatellites() for the constellations `loaded'; `fails' tells
\* whether satelliteManager.initialize throws when it is reached.
rebuildSatellites(loaded, fails) ==
  IF AllTleData(loaded) = <<>> THEN UnloadAll
  ELSE IF fails THEN RebuildFails
  ELSE RebuildTo(AllTleData(loaded))

\* Nothing but the record of the call changes.
OnlyToggled ==
  /\ WorkerHandled(Worker, "toggleConstellation")
  /\ Received(Worker)
  /\ UNCHANGED <<satellites, meshPosition, satelliteTypes, followTarget, appVars,
                 loadedConstellations>>

\* toggleConstellation(constellationId), with unloadConstellation and
\* loadConstellation inlined.  The unload branch returns false and lets an
\* exception of the rebuild through; the load branch returns true whatever
\* loadConstellation did, which catches every exception itself.
toggleConstellation(constellationId, fails) ==
  IF Has(loadedConstellations, constellationId)
  THEN LET left == Without(loadedConstellations, constellationId)
       IN /\ loadedConstellations' = left
          /\ rebuildSatellites(left, fails)
          /\ toggled' = [id |-> constellationId, returned |-> FALSE,
                         threw |-> fails /\ AllTleData(left) # <<>>]
  ELSE /\ toggled' = [id |-> constellationId, returned |-> TRUE, threw |-> FALSE]
       /\ IF loadPresetThrows(constellationId) THEN OnlyToggled
          ELSE IF Len(Catalog[constellationId]) = 0 THEN OnlyToggled
          ELSE LET added == Append(loadedConstellations, constellationId)
               IN /\ loadedConstellations' = added
                  /\ rebuildSatellites(added, fails)

PresetsToggle ==
  \E constellationId \in PresetIds, fails \in BOOLEAN :
    toggleConstellation(constellationId, fails)

NextPresets ==
  \/ PresetsToggle
  \/ AppAnimate
  \/ AppTimerFires
  \/ ControlsAdvanceClock

SpecPresets == InitSet /\ [][NextPresets]_vars

\* ---- the time controller alone: the controls used before a worker exists ----
NextTime ==
  \/ ControlsSetTimeSpeed
  \/ AppToggleTimePause
  \/ AppResetTime
  \/ AppAnimate
  \/ AppAdvanceClock

SpecTime == Init /\ [][NextTime]_vars

(***************************************************************************)
(* Keplerian propagator (src/src/workers/keplerian-propagator.js).         *)
(*                                                                         *)
(* Units.  Arithmetic is exact integer arithmetic.  In the propagation     *)
(* angles are whole quarter turns (1 is pi/2), the eccentricity is in      *)
(* tenths, a is in km, positions are in 0.1 km, and velocities are in      *)
(* units of MU/(10 h), the factor mu/h that both perifocal components      *)
(* share.  Times are whole milliseconds, n is in quarter turns per second. *)
(* In the extraction the mean motion is in mrad/min (n in mrad/s), a is    *)
(* in units of 10 km and the epoch is in whole days since 1 Jan 1970.      *)
(* Floating-point rounding is not modelled.                                *)
(***************************************************************************)
\* ---- JavaScript values of a record field: a number, NaN, Infinity or undefined ----
Undefined == [kind |-> "undefined", v |-> 0]
NaN == [kind |-> "NaN", v |-> 0]
Infinity == [kind |-> "Infinity", v |-> 0]
Number(v) == [kind |-> "number", v |-> v]
IsNumber(x) == x.kind = "number"

\* x / d for a non-zero constant d (inputs are whole multiples of d).
Divide(x, d) ==
  CASE x.kind = "number" -> Number(x.v \div d)
    [] x.kind = "Infinity" -> Infinity
    [] OTHER -> NaN

\* x * y
Times(x, y) ==
  CASE x.kind = "number" /\ y.kind = "number" -> Number(x.v * y.v)
    [] x.kind \in {"NaN", "undefined"} \/ y.kind \in {"NaN", "undefined"} -> NaN
    [] OTHER -> Infinity

\* c + x for a constant c
Plus(c, x) ==
  CASE x.kind = "number" -> Number(c + x.v)
    [] x.kind = "Infinity" -> Infinity
    [] OTHER -> NaN

\* x < c: false for undefined and NaN
LessThan(x, c) ==
  CASE x.kind = "number" -> x.v < c
    [] OTHER -> FALSE

\* The largest r with r^3 <= v, for 0 <= v < 10^9, found by bisection in [lo, hi).
RECURSIVE CubeRootBetween(_, _, _)
CubeRootBetween(lo, hi, v) ==
  IF hi - lo <= 1 THEN lo
  ELSE LET mid == (lo + hi) \div 2
       IN  IF mid * mid * mid <= v THEN CubeRootBetween(mid, hi, v)
           ELSE CubeRootBetween(lo, mid, v)

CubeRootFloor(v) == CubeRootBetween(0, 1000, v)

\* Earth's gravitational parameter, in thousandths of km^3/s^2.
MU == 398600442

\* Math.pow(MU / nn, 1/3) for nn = n * n >= 0; a positive number over zero is Infinity.
SemiMajorAxis(nn) ==
  CASE nn.kind = "number" /\ nn.v # 0 -> Number(CubeRootFloor(MU \div nn.v))
    [] nn.kind = "number" /\ nn.v = 0 -> Infinity
    [] nn.kind = "Infinity" -> Number(0)
    [] OTHER -> NaN

\* Date.UTC(year, 0, 1), in days since 1 Jan 1970 (years 1901..2099).
DateUTC(year) ==
  CASE year.kind = "number" -> Number(365 * (year.v - 1970) + ((year.v - 1969) \div 4))
    [] OTHER -> NaN

\* The function has no validation and no throw statement: it returns an
\* element set for every record.
extractOrbitalElements(satrec) ==
  LET n_rad_min == satrec.no
      n == Divide(n_rad_min, 60)
      a == SemiMajorAxis(Times(n, n))
      epochYear == IF LessThan(satrec.epochyr, 57)
                   THEN Plus(2000, satrec.epochyr)
                   ELSE Plus(1900, satrec.epochyr)
      epochDays == satrec.epochdays
      yearStart == DateUTC(epochYear)
      epoch == CASE yearStart.kind = "number" -> Plus(yearStart.v, Plus(-1, epochDays))
                 [] OTHER -> NaN
  IN  [threw |-> FALSE, error |-> "none",
       elements |-> [a |-> a, e |-> satrec.ecco, i |-> satrec.inclo,
                     omega |-> satrec.argpo, Omega |-> satrec.nodeo,
                     M0 |-> satrec.mo, n |-> n, epoch |-> epoch]]

\* ---- trigonometry on whole quarter turns ----
\* M % TWO_PI as JavaScript computes it (the sign of the dividend is kept),
\* followed by the `if (M < 0) M += TWO_PI'.
Normalize(M) ==
  LET m == IF M >= 0 THEN M % 4 ELSE -((-M) % 4)
  IN  IF m < 0 THEN m + 4 ELSE m

SinQ(q) == LET m == q % 4 IN CASE m = 1 -> 1 [] m = 3 -> -1 [] OTHER -> 0
CosQ(q) == LET m == q % 4 IN CASE m = 0 -> 1 [] m = 2 -> -1 [] OTHER -> 0

\* Math.atan2(y, x) for a point on an axis.
Atan2Q(y, x) ==
  CASE y = 0 /\ x > 0 -> 0
    [] y > 0 /\ x = 0 -> 1
    [] y = 0 /\ x < 0 -> 2
    [] y < 0 /\ x = 0 -> -1
    [] OTHER -> 0

\* Math.sqrt(1 - e * e) in tenths, exact for e of 0, 0.6 and 0.8.
Sqrt1me2(e) == CHOOSE r \in 0..10 : r * r <= 100 - e * e /\ 100 - e * e < (r + 1) * (r + 1)

\* The inputs on which the first Newton step is exactly zero, so that the
\* loop leaves E at its initial guess: f = (E - M) - e sin E is zero when
\* E = M (e < 0.8) or E = pi = M, and e sin E = 0.
KeplerExact(M, e) ==
  LET Mn == Normalize(M)
      E0 == IF e < 8 THEN Mn ELSE 2
  IN  E0 = Mn /\ e * SinQ(E0) = 0

solveKepler(M, e) ==
  LET Mn == Normalize(M)
      E0 == IF e < 8 THEN Mn ELSE 2
      \* f = E - e sin E - M: its angle part (quarter turns) and sine part (tenths)
      f == <<E0 - Mn, -(e * SinQ(E0))>>
      fPrime == 10 - e * CosQ(E0)
      deltaIsZero == f = <<0, 0>> /\ fPrime # 0
  IN  [E |-> E0, iterations |-> 1, converged |-> deltaIsZero]

\* The six products of the perifocal-to-inertial rotation.
Rotation(elements) ==
  LET cosOmega == CosQ(elements.Omega)
      sinOmega == SinQ(elements.Omega)
      cosomega == CosQ(elements.omega)
      sinomega == SinQ(elements.omega)
      cosi == CosQ(elements.i)
      sini == SinQ(elements.i)
  IN  [R11 |-> cosOmega * cosomega - sinOmega * sinomega * cosi,
       R12 |-> -(cosOmega * sinomega) - sinOmega * cosomega * cosi,
       R21 |-> sinOmega * cosomega + cosOmega * sinomega * cosi,
       R22 |-> -(sinOmega * sinomega) + cosOmega * cosomega * cosi,
       R31 |-> sinomega * sini,
       R32 |-> cosomega * sini]

\* The inertial vector of the perifocal vector (x_orb, y_orb).
ToInertial(elements, x_orb, y_orb) ==
  LET R == Rotation(elements)
  IN  <<R.R11 * x_orb + R.R12 * y_orb,
        R.R21 * x_orb + R.R22 * y_orb,
        R.R31 * x_orb + R.R32 * y_orb>>

propagateKeplerian_RadiusSignFlipped(elements, date) ==
  LET dt == (date - elements.epoch) \div 1000
      M == elements.M0 + elements.n * dt
      E == solveKepler(M, elements.e).E
      nu == Atan2Q(Sqrt1me2(elements.e) * SinQ(E), 10 * CosQ(E) - elements.e)
      r == elements.a * (10 + elements.e * CosQ(E))
  IN  [position |-> ToInertial(elements, r * CosQ(nu), r * SinQ(nu)),
       velocity |-> ToInertial(elements, -(10 * SinQ(nu)), elements.e + 10 * CosQ(nu))]

propagateKeplerian(elements, date) ==
  LET dt == (date - elements.epoch) \div 1000
      M == elements.M0 + elements.n * dt
      E == solveKepler(M, elements.e).E
      nu == Atan2Q(Sqrt1me2(elements.e) * SinQ(E), 10 * CosQ(E) - elements.e)
      r == elements.a * (10 - elements.e * CosQ(E))
  IN  [position |-> ToInertial(elements, r * CosQ(nu), r * SinQ(nu)),
       velocity |-> ToInertial(elements, -(10 * SinQ(nu)), elements.e + 10 * CosQ(nu))]

\* ---- inputs ----
FieldValues(numbers) == {Number(v) : v \in numbers} \cup {Undefined}

SatelliteRecords ==
  [no : FieldValues({-60, 0, 60, 120}), ecco : FieldValues({5}),
   inclo : FieldValues({1}), nodeo : FieldValues({1}), argpo : FieldValues({1}),
   mo : FieldValues({1}), epochyr : FieldValues({24, 57}), epochdays : FieldValues({32})]

ElementSets ==
  [a : {7000}, e : {0, 5, 6, 9}, i : 0..2, omega : 0..3, Omega : 0..1,
   M0 : 0..3, n : {1}, epoch : {1000}]

Dates == {0, 1000, 2000}

\* ---- calls ----
KeplerExtract ==
  /\ \E satrec \in SatelliteRecords :
       kepler' = [op |-> "extractOrbitalElements", input |-> satrec,
                  result |-> extractOrbitalElements(satrec)]
  /\ UNCHANGED <<workerVars, clockVars, deliveryVars, presetVars, trackVars, posted, lastEvent, historyVars, consumerVars, appVars, now>>

KeplerPropagate ==
  /\ \E elements \in ElementSets, date \in Dates :
       /\ KeplerExact(elements.M0 + elements.n * ((date - elements.epoch) \div 1000),
                      elements.e)
       /\ kepler' = [op |-> "propagateKeplerian",
                     input |-> [elements |-> elements, date |-> date],
                     result |-> propagateKeplerian(elements, date)]
  /\ UNCHANGED <<workerVars, clockVars, deliveryVars, presetVars, trackVars, posted, lastEvent, historyVars, consumerVars, appVars, now>>

NextKepler ==
  \/ KeplerExtract
  \/ KeplerPropagate

SpecKepler == Init /\ [][NextKepler]_vars

(***************************************************************************)
(* The TimeController called directly (time-controller.js): update,        *)
(* togglePause and setSpeed in any order, with wall time passing between   *)
(* any two calls.                                                          *)
(***************************************************************************)
MaxClockSteps == 3      \* wall-clock horizon of the direct calls, in clock steps

\* What is recorded of a direct call.
ClockCall(type) ==
  /\ lastEvent' = [NoEvent EXCEPT !.type = type, !.at = now]
  /\ UNCHANGED <<workerVars, keplerVars, deliveryVars, presetVars, trackVars, posted, historyVars, consumerVars,
                 sgp4Worker, stats, speedChange, now>>

ClockUpdate ==
  /\ timeController' = update(timeController)
  /\ pausedWall' = 0
  /\ ClockCall("update")

ClockTogglePause ==
  /\ timeController' = togglePause(timeController)
  /\ UNCHANGED pausedWall
  /\ ClockCall("togglePause")

ClockSetSpeed ==
  /\ \E multiplier \in ControlSpeeds :
       timeController' = setSpeed(timeController, multiplier)
  /\ UNCHANGED pausedWall
  /\ ClockCall("setSpeed")

\* Wall time passes by one step, with or without an update() in between.
ClockAdvance ==
  /\ now < MaxClockSteps * ClockStep
  /\ now' = now + ClockStep
  /\ pausedWall' = IF timeController.isPaused THEN pausedWall + ClockStep ELSE pausedWall
  /\ UNCHANGED <<workerVars, keplerVars, deliveryVars, presetVars, trackVars, posted, lastEvent, historyVars, consumerVars,
                 appVars>>

NextClock ==
  \/ ClockUpdate
  \/ ClockTogglePause
  \/ ClockSetSpeed
  \/ ClockAdvance

SpecClock == Init /\ [][NextClock]_vars

(***************************************************************************)
(* Ground track sampling (src/unnamed/part_010, the ground-track           *)
(* component).  Offsets are whole milliseconds, velocities are in tenths   *)
(* of km/s; 0 stands for a velocity that is unavailable.                   *)
(***************************************************************************)
targetArcLength == 100
minDtMs == 10 * 1000
maxDtMs == 120 * 1000
maxPoints == 200

\* How propagation goes along the track: it fails never, always, or for every
\* time further than 22.5 minutes from the base time.
PointFails(failing, offset) ==
  \/ failing = "always"
  \/ (failing = "far" /\ Abs(offset) > 1350000)

\* The time step after a point of the given velocity: targetArcLength /
\* velocity seconds, clamped; 7.8 km/s stands in for a missing velocity.
TimeStep(velocity10) ==
  LET velocity == IF velocity10 = 0 THEN 78 ELSE velocity10
      dtMs == (targetArcLength * 10 * 1000) \div velocity
  IN  Max(minDtMs, Min(maxDtMs, dtMs))

\* One pass of the while loop over its local state: the loop condition, the
\* maxPoints break, then the sample and the step to the next offset.
LoopPass(loop, endOffsetMs, direction, env) ==
  IF loop.exited THEN loop
  ELSE IF ~(\/ (direction > 0 /\ loop.currentOffsetMs <= endOffsetMs)
            \/ (direction < 0 /\ loop.currentOffsetMs >= endOffsetMs))
  THEN [loop EXCEPT !.exited = TRUE]
  ELSE IF loop.count >= maxPoints
  THEN [loop EXCEPT !.exited = TRUE]
  ELSE IF ~PointFails(env.failing, loop.currentOffsetMs)
  THEN [loop EXCEPT !.count = @ + 1, !.last = loop.currentOffsetMs,
                    !.currentOffsetMs = @ + direction * TimeStep(env.velocity)]
  ELSE [loop EXCEPT !.currentOffsetMs = @ + direction * 60 * 1000]

\* n passes of the loop, one after the other.
RECURSIVE LoopPasses(_, _, _, _, _)
LoopPasses(loop, n, endOffsetMs, direction, env) ==
  IF n = 0 THEN loop
  ELSE IF n = 1 THEN LoopPass(loop, endOffsetMs, direction, env)
  ELSE LET half == LoopPasses(loop, n \div 2, endOffsetMs, direction, env)
       IN  IF half.exited THEN half
           ELSE LoopPasses(half, n - n \div 2, endOffsetMs, direction, env)

\* sampleTrackAdaptive(baseTime, startOffsetMs, endOffsetMs): whether the loop
\* was left and the number of points returned.  The loop is followed for
\* MaxPasses(...) passes, more than it can make when every pass moves the
\* offset by at least minDtMs towards the end.  env.endPoint tells what
\* getGroundPoint gives for the end time: a point near the last sample or one
\* more than 0.5 degrees away; the last sample itself is never away from itself.
MaxPasses(startOffsetMs, endOffsetMs) ==
  Abs(endOffsetMs - startOffsetMs) \div minDtMs + 2

sampleTrackAdaptive(startOffsetMs, endOffsetMs, env) ==
  LET direction == IF startOffsetMs < endOffsetMs THEN 1 ELSE -1
      loop == LoopPasses([currentOffsetMs |-> startOffsetMs, count |-> 0,
                          last |-> startOffsetMs, exited |-> FALSE],
                         MaxPasses(startOffsetMs, endOffsetMs), endOffsetMs,
                         direction, env)
      addEnd == /\ loop.count > 0
                /\ ~PointFails(env.failing, endOffsetMs)
                /\ env.endPoint = "away"
                /\ loop.last # endOffsetMs
  IN  [terminated |-> loop.exited,
       points |-> loop.count + (IF addEnd THEN 1 ELSE 0)]

\* ---- inputs ----
TrackOffsets == {-45 * 60 * 1000, -60 * 1000, 0, 45 * 60 * 1000}

TrackEnvironments ==
  [velocity : {0, 5, 100}, failing : {"never", "always", "far"},
   endPoint : {"near", "away"}]

TrackSample ==
  /\ \E startOffsetMs \in TrackOffsets, endOffsetMs \in TrackOffsets,
        env \in TrackEnvironments :
       track' = [op |-> "sampleTrackAdaptive",
                 input |-> [startOffsetMs |-> startOffsetMs,
                            endOffsetMs |-> endOffsetMs, env |-> env],
                 result |-> sampleTrackAdaptive(startOffsetMs, endOffsetMs, env)]
  /\ UNCHANGED <<workerVars, keplerVars, clockVars, deliveryVars, presetVars, posted,
                 lastEvent, historyVars, consumerVars, appVars, now>>

NextTrack == TrackSample

SpecTrack == Init /\ [][NextTrack]_vars

(***************************************************************************)
(* Claims                                                                  *)
(***************************************************************************)
\* Positions of the snapshot / config messages in a message sequence.
SnapshotsIn(msgs) == {k \in 1..Len(msgs) : msgs[k].type = "positions"}
ConfigsIn(msgs) == {k \in 1..Len(msgs) : msgs[k].type = "config"}

\* The three components of body i (1-based) in a flat array.
Entry(arr, i) == [c \in 1..3 |-> arr[3 * (i - 1) + c]]

\* C1: once two or more snapshots have been sent since the last init or
\* addSatellite, a later handler (other than init/addSatellite) allocates no
\* transfer buffer in sendPositionUpdate.  Stated for a non-empty body set.
C1_NoAllocationInSteadyState ==
  [][(/\ sendsSinceResize >= 2
      /\ Len(satrecs) >= 1
      /\ now' = now
      /\ lastEvent'.type \notin {"init", "addSatellite"})
     => lastEvent'.allocs = 0]_vars

\* C2: after a render frame, every visible satellite whose snapshot entry is
\* not the zero sentinel is placed at P + V * (delta * m), for every sign of
\* m (positions in 1e-4 km, delta in ms, m in tenths).
C2_ExtrapolationLinear ==
  (lastEvent.type = "frame" /\ ~workerData.positions.isNull) =>
    \A i \in 1..Len(satellites) :
      LET P == Entry(workerData.positions.data, satellites[i].workerIndex + 1)
          V == Entry(workerData.velocities.data, satellites[i].workerIndex + 1)
          delta == lastEvent.at - workerData.receiveTime
          m == workerData.timeMultiplier
      IN (/\ (i = followTarget \/ satelliteTypes[satellites[i].type])
          /\ P # <<0, 0, 0>>)
         => meshPosition[i] = ToThree([c \in 1..3 |-> P[c] * 10000 + V[c] * delta * m])

\* C3: after stop and until the next init, no handler is a tick and none runs
\* physicsTick, whatever other messages are handled; a further stop changes
\* no worker state and posts nothing.
C3_NoTickAfterStop ==
  [][(stopped /\ now' = now /\ lastEvent'.type # "init")
     => /\ lastEvent'.type # "tick"
        /\ ~lastEvent'.tickRan
        /\ (lastEvent'.type = "stop" => (UNCHANGED workerVars /\ posted' = <<>>))]_vars

\* C3 witness: stopped, and a setTimeMultiplier that changes the policy
\* interval has just been handled while not paused.
C3_Witness ==
  /\ stopped
  /\ lastEvent.type = "setTimeMultiplier"
  /\ ~isPaused
  /\ calculatePhysicsInterval(Worker) # currentPhysicsInterval

\* C4: a timer callback that fires while isPaused is set leaves the clock,
\* the working buffers and the outgoing stream as they were.
C4_PausedTickNoEffect ==
  [][(isPaused /\ now' = now /\ lastEvent'.type = "tick")
     => (UNCHANGED <<simulationTime, positions, velocities>> /\ posted' = <<>>)]_vars

\* C4 witness: the timer fired while paused, with wall time pending and a
\* multiplier that would have moved the clock.
C4_Witness ==
  /\ isPaused
  /\ lastEvent.type = "tick"
  /\ now > lastPhysicsTime
  /\ timeMultiplier # 0

\* C5: the first tick after a resume advances the clock by
\* (tick time - resume time) * multiplier, so wall time before the resume
\* (the paused stretch) is not added.
C5_PausedTimeNotCounted ==
  [][(/\ lastEvent.type = "resume"
      /\ now' = now
      /\ lastEvent'.type = "tick"
      /\ lastEvent'.tickRan)
     => simulationTime' =
          simulationTime + ((now - lastEvent.at) * timeMultiplier) \div 10]_vars

\* C5 witness: a tick ran right after a resume that ended a pause and
\* discarded pending wall time, later than that resume, with a multiplier
\* that moves the clock.
C5_Witness ==
  /\ lastEvent.type = "tick"
  /\ lastEvent.tickRan
  /\ lastEvent.resumed # <<>>
  /\ lastEvent.resumed[3]
  /\ lastEvent.resumed[1] > lastEvent.resumed[2]
  /\ lastEvent.at > lastEvent.resumed[1]
  /\ timeMultiplier # 0

\* C6: after init is handled, in whatever state, the timer is active, the
\* worker is not paused and exactly one snapshot of the new body set was
\* posted by the handler.
C6_InitRunsAndSnapshots ==
  lastEvent.type = "init" =>
    /\ physicsTimer.active
    /\ ~isPaused
    /\ Cardinality(SnapshotsIn(posted)) = 1
    /\ \A k \in SnapshotsIn(posted) : Len(posted[k].positions) = 3 * Len(satrecs)

\* C7: while the timer is active and the worker is not paused, the timer's
\* interval is the policy interval of the current multiplier.
C7_IntervalFollowsPolicy ==
  (physicsTimer.active /\ ~isPaused) =>
    physicsTimer.interval = calculatePhysicsInterval(Worker)

\* What C8 asks of a tick that ran, with `before' the array the failing
\* body's entry is carried over from.
TickIsolatesFailure(before) ==
  (now' = now /\ lastEvent'.type = "tick" /\ lastEvent'.tickRan) =>
    /\ Cardinality(SnapshotsIn(posted')) = 1
    /\ \A k \in SnapshotsIn(posted') : \A i \in 1..Len(satrecs) :
         satrecs[i] =>
           /\ lastEvent'.outcomes[i] = "ok" =>
                Entry(posted'[k].positions, i) = SatPosition(i, simulationTime')
           /\ lastEvent'.outcomes[i] = "throws" =>
                /\ Len(before) >= 3 * i
                /\ Entry(posted'[k].positions, i) = Entry(before, i)

\* C8 as stated: a tick in which a propagate call throws still posts its
\* snapshot; bodies that propagate carry their new position, the failing
\* body carries its position from the previous snapshot.
C8_FailureKeepsPreviousSnapshotEntry == [][TickIsolatesFailure(prevSnapshot)]_vars

\* C8 amended: the failing body carries the value its slot held in the
\* working buffer before the tick.
C8_FailureKeepsWorkingEntry == [][TickIsolatesFailure(positions.data)]_vars

\* C8 witness: a tick ran in which one body threw and another propagated,
\* and the failing body's entry is an earlier, non-zero position.
C8_Witness ==
  /\ lastEvent.type = "tick"
  /\ lastEvent.tickRan
  /\ \E i, j \in 1..Len(satrecs) :
       /\ lastEvent.outcomes[i] = "throws"
       /\ lastEvent.outcomes[j] = "ok"
       /\ Entry(positions.data, i) # <<0, 0, 0>>
       /\ Entry(positions.data, i) # SatPosition(i, simulationTime)

\* The interval a handler computed is the one its config message carries.
ComputedInterval(m, interval) ==
  (lastEvent.type \in {"init", "setTimeMultiplier"} /\ timeMultiplier = m) =>
    \A k \in ConfigsIn(posted) : posted[k].physicsInterval = interval

C10_TickAdvancesClock ==
  [][/\ (now' = now /\ ~isPaused /\ lastEvent'.type = "tick")
        => /\ simulationTime' =
                simulationTime + ((now - lastPhysicsTime) * timeMultiplier) \div 10
           /\ Cardinality(SnapshotsIn(posted')) = 1
           /\ Len(posted') = 1
     /\ (now' = now /\ lastEvent'.type = "init" /\ lastEvent'.tickRan)
        => /\ simulationTime' = simulationTime
           /\ Cardinality(SnapshotsIn(posted')) = 1]_vars

\* C10 witness: a tick ran under a negative multiplier after wall time had
\* passed since the reference point.
C10_Witness ==
  /\ lastEvent.type = "tick"
  /\ lastEvent.tickRan
  /\ timeMultiplier < 0
  /\ lastEvent.at > lastEvent.ref

\* C11: handling setTime(t) once an init has been handled sets the clock to
\* t, leaves every body at its position for t and posts exactly one
\* snapshot, with time field t and those positions, whether the loop is
\* running, paused or stopped.
C11_SetTimeForcesSnapshot ==
  [][(now' = now /\ lastEvent'.type = "setTime" /\ ~positions.isNull)
     => /\ simulationTime' = lastEvent'.arg
        /\ \A i \in 1..Len(satrecs) :
             satrecs[i] =>
               Entry(positions'.data, i) = SatPosition(i, lastEvent'.arg)
        /\ Len(posted') = 1
        /\ posted'[1].type = "positions"
        /\ posted'[1].time = lastEvent'.arg
        /\ posted'[1].positions = positions'.data]_vars

\* C11 witness: a setTime was handled after an init while the worker was
\* both stopped and paused, after wall time had passed.
C11_Witness ==
  /\ lastEvent.type = "setTime"
  /\ Len(satrecs) >= 1
  /\ stopped
  /\ isPaused
  /\ lastEvent.at > 0
  /\ simulationTime = lastEvent.arg

\* C12: once more than one re-sync period of the app's multiplier m (100 ms
\* when |m| > 10, otherwise 500 ms) has passed since the app's last speed
\* change, the snapshot the consumer holds is tagged m.
C12_StaleTagBounded ==
  (/\ speedChange.issued
   /\ ~workerData.positions.isNull
   /\ now - speedChange.at > SyncInterval(timeController.multiplier))
  => workerData.timeMultiplier = timeController.multiplier

\* C13: no handler ends in the exception a copy into a neutered (or too
\* short) transfer buffer raises, and every snapshot posted carries arrays of
\* the current size, 3 per tracked body: the slot copied into was usable or
\* was replaced by a fresh allocation of that size.
C13_NoUseOfNeuteredBuffer ==
  /\ ~lastEvent.threw
  /\ \A k \in SnapshotsIn(posted) :
       /\ Len(posted[k].positions) = 3 * Len(satrecs)
       /\ Len(posted[k].velocities) = 3 * Len(satrecs)

\* C13 witness: a snapshot of a non-empty set was sent from a slot that was
\* found neutered and reallocated.
C13_Witness ==
  /\ lastEvent.type = "tick"
  /\ lastEvent.allocs = 2
  /\ Len(satrecs) >= 1
  /\ sendsSinceResize >= 2
  /\ SnapshotsIn(posted) # {}

\* C14: at most one interval is live at any time, and it is the one the
\* handle names.
C14_AtMostOneTimer ==
  /\ liveTimers <= 1
  /\ physicsTimer.active <=> liveTimers = 1

\* C14 witness: a setTimeMultiplier has just restarted the loop at a new
\* interval.
C14_Witness ==
  /\ lastEvent.type = "setTimeMultiplier"
  /\ ConfigsIn(posted) # {}
  /\ physicsTimer.active
  /\ physicsTimer.interval # BASE_PHYSICS_INTERVAL

\* C15: a setTimeMultiplier whose multiplier has the policy interval the
\* worker already runs at changes the stored multiplier and nothing else:
\* same timer, same reference point, no message.
C15_SameIntervalOnlyStoresMultiplier ==
  [][(/\ now' = now
      /\ lastEvent'.type = "setTimeMultiplier"
      /\ calculatePhysicsInterval([Worker EXCEPT !.timeMultiplier = lastEvent'.arg])
           = currentPhysicsInterval)
     => /\ timeMultiplier' = lastEvent'.arg
        /\ UNCHANGED <<satrecs, slotNames, positions, velocities, transferBufferA,
                       transferBufferB, useBufferA, currentPhysicsInterval,
                       physicsTimer, liveTimers, lastPhysicsTime, simulationTime,
                       isPaused>>
        /\ posted' = <<>>]_vars

\* C15 witness: the loop is running unpaused, wall time has passed since the
\* reference point, and a setTimeMultiplier to -1x, which keeps the base
\* interval, has just been handled.
C15_Witness ==
  /\ lastEvent.type = "setTimeMultiplier"
  /\ lastEvent.arg = -10
  /\ physicsTimer.active
  /\ ~isPaused
  /\ currentPhysicsInterval = BASE_PHYSICS_INTERVAL
  /\ lastEvent.at > lastPhysicsTime

\* C16: handling addSatellite appends exactly one slot, reports its index,
\* the previous body count, in satelliteAdded, and leaves the slot, position
\* and velocity of every existing body as they were; every snapshot sent
\* afterwards carries 3 values per tracked body, the new one included, with
\* the newly propagated position of every body whose propagation succeeds.
C16_AddSatelliteAppends ==
  [][/\ (now' = now /\ lastEvent'.type = "addSatellite")
        => /\ Len(satrecs') = Len(satrecs) + 1
           /\ SubSeq(satrecs', 1, Len(satrecs)) = satrecs
           /\ posted' = <<[type |-> "satelliteAdded", index |-> Len(satrecs)]>>
           /\ Len(positions'.data) = 3 * Len(satrecs')
           /\ Len(velocities'.data) = 3 * Len(satrecs')
           /\ \A i \in 1..Len(satrecs) :
                /\ Entry(positions'.data, i) = Entry(positions.data, i)
                /\ Entry(velocities'.data, i) = Entry(velocities.data, i)
     /\ (now' = now /\ lastEvent'.type \in {"tick", "setTime"})
        => \A k \in SnapshotsIn(posted') :
             /\ Len(posted'[k].positions) = 3 * Len(satrecs')
             /\ Len(posted'[k].velocities) = 3 * Len(satrecs')
             /\ \A i \in 1..Len(satrecs') :
                  lastEvent'.outcomes[i] = "ok" =>
                    Entry(posted'[k].positions, i) = SatPosition(i, simulationTime')]_vars

\* C16 witness: an addSatellite has just been handled that added a second
\* body to a set whose first body has a propagated position.
C16_Witness ==
  /\ lastEvent.type = "addSatellite"
  /\ Len(satrecs) = 2
  /\ Entry(positions.data, 1) # <<0, 0, 0>>
  /\ Entry(positions.data, 2) # <<0, 0, 0>>

\* C17: a record that does not parse raises nothing and keeps its slot: init
\* reports as many bodies as it was given records, addSatellite appends a
\* slot and reports its index whether or not the record parses, a valid body
\* is propagated under its own index, and the slot of an invalid record holds
\* (0,0,0) in the working buffer and in every snapshot.
C17_InvalidRecordKeepsSlot ==
  [][(now' = now /\ lastEvent'.type \in {"init", "addSatellite", "tick", "setTime"})
     => /\ ~lastEvent'.threw
        /\ lastEvent'.type = "init"
           => /\ Len(satrecs') = lastEvent'.arg
              /\ \E k \in 1..Len(posted') :
                   posted'[k] = [type |-> "initialized", count |-> lastEvent'.arg]
        /\ lastEvent'.type = "addSatellite"
           => /\ Len(satrecs') = Len(satrecs) + 1
              /\ posted'[Len(posted')].index = Len(satrecs)
        /\ \A i \in 1..Len(satrecs') :
             IF satrecs'[i]
             THEN \A k \in SnapshotsIn(posted') :
                    lastEvent'.outcomes[i] = "ok" =>
                      Entry(posted'[k].positions, i) = SatPosition(i, simulationTime')
             ELSE /\ Entry(positions'.data, i) = <<0, 0, 0>>
                  /\ \A k \in SnapshotsIn(posted') :
                       Entry(posted'[k].positions, i) = <<0, 0, 0>>]_vars

\* C17 witness: a snapshot was sent of a set whose first record did not parse
\* and whose second body was propagated to a non-zero position.
C17_Witness ==
  /\ lastEvent.type = "tick"
  /\ Len(satrecs) = 2
  /\ ~satrecs[1]
  /\ satrecs[2]
  /\ \E k \in SnapshotsIn(posted) :
       /\ Entry(posted[k].positions, 1) = <<0, 0, 0>>
       /\ Entry(posted[k].positions, 2) = SatPosition(2, simulationTime)
       /\ Entry(posted[k].positions, 2) # <<0, 0, 0>>

\* C18: handling a message of a type the switch does not name changes no
\* variable of the worker, posts nothing and raises nothing.
C18_UnknownMessageIgnored ==
  [][(now' = now /\ lastEvent'.type = "unknown")
     => /\ UNCHANGED workerVars
        /\ posted' = <<>>
        /\ ~lastEvent'.threw]_vars

\* C18 witness: an unknown message was handled while the loop was running
\* with a body tracked.
C18_Witness ==
  /\ lastEvent.type = "unknown"
  /\ physicsTimer.active
  /\ Len(satrecs) = 1

\* C19: a render frame leaves the rendered position of every satellite whose
\* snapshot entry is (0,0,0) as it was before the frame.
C19_ZeroEntryNotRendered ==
  [][(now' = now /\ lastEvent'.type = "frame" /\ ~workerData.positions.isNull)
     => \A i \in 1..Len(satellites) :
          Entry(workerData.positions.data, satellites[i].workerIndex + 1) = <<0, 0, 0>>
            => meshPosition'[i] = meshPosition[i]]_vars

\* C19 witness: a frame was rendered for a visible satellite that had been
\* drawn from an earlier snapshot and whose entry is now (0,0,0).
C19_Witness ==
  /\ lastEvent.type = "frame"
  /\ ~workerData.positions.isNull
  /\ \E i \in 1..Len(satellites) :
       /\ Entry(workerData.positions.data, satellites[i].workerIndex + 1) = <<0, 0, 0>>
       /\ meshPosition[i] # <<0, 0, 0>>
       /\ (i = followTarget \/ satelliteTypes[satellites[i].type])

\* C20: while the app and its worker are paused and a snapshot is held, two
\* successive render frames with no control used between them apply the same
\* position to every satellite.
C20_PausedFramesFrozen ==
  [][(/\ sgp4Worker
      /\ timeController.isPaused /\ timeController'.isPaused
      /\ isPaused /\ isPaused'
      /\ ~workerData.positions.isNull
      /\ lastEvent.type = "animate"
      /\ lastEvent'.type = "animate")
     => meshPosition' = meshPosition]_vars

\* C21: setSpeed(m) stores m as the multiplier, leaves the simulation time
\* and the frame reference alone, never pauses, and changes the pause flag
\* exactly when the controller was paused and m is not 0.
C21_SetSpeedUnpausesOnlyNonZero ==
  [][(now' = now /\ lastEvent'.type = "setTimeSpeed")
     => /\ timeController'.multiplier = lastEvent'.arg
        /\ timeController'.current = timeController.current
        /\ timeController'.lastFrameTime = timeController.lastFrameTime
        /\ timeController'.isPaused => timeController.isPaused
        /\ (timeController'.isPaused # timeController.isPaused)
             <=> (timeController.isPaused /\ lastEvent'.arg # 0)]_vars

\* C21 witness: a non-zero speed has just been set on a paused controller
\* whose simulation time had advanced, and the controller is running again.
C21_Witness ==
  /\ lastEvent.type = "setTimeSpeed"
  /\ speedChange.wasPaused
  /\ lastEvent.arg = 110
  /\ timeController.multiplier = 110
  /\ ~timeController.isPaused
  /\ timeController.current # 0

\* C25: with every posted message handled, the paused flag of the app's
\* worker equals the paused flag of the time controller.
C25_PauseFlagsAgree ==
  sgp4Worker => (isPaused = timeController.isPaused)

\* C26 as stated: after stop and until the next init, no handler posts a
\* positions message.
C26_NoSnapshotAfterStop ==
  [][(stopped /\ now' = now /\ lastEvent'.type # "init")
     => SnapshotsIn(posted') = {}]_vars

\* C26 amended: after stop and until the next init, the only positions
\* messages are the replies to setTime, one for each setTime handled once
\* buffers exist.
C26_OnlySetTimeSnapshotsAfterStop ==
  [][(stopped /\ now' = now /\ lastEvent'.type # "init")
     => IF lastEvent'.type = "setTime"
        THEN Cardinality(SnapshotsIn(posted')) = (IF positions.isNull THEN 0 ELSE 1)
        ELSE SnapshotsIn(posted') = {}]_vars

\* C26 witness: the worker is stopped, wall time has passed since, and a
\* setTime has just been answered with a snapshot.
C26_Witness ==
  /\ stopped
  /\ ~physicsTimer.active
  /\ lastEvent.type = "setTime"
  /\ SnapshotsIn(posted) # {}
  /\ now > 0

C30_ChangeKeepsElapsedTime ==
  [][(now' = now /\ lastEvent'.type = "setTimeMultiplier"
      /\ physicsTimer.active /\ ~isPaused)
     => simulationTime' * 10 + (now - lastPhysicsTime') * timeMultiplier
          = simulationTime * 10 + (now - lastPhysicsTime) * timeMultiplier]_vars

\* C27: every satellite object of the app names, by its workerIndex, the
\* worker slot that holds the record of that same satellite.
C27_WorkerIndexAligned ==
  sgp4Worker =>
    \A j \in 1..Len(satellites) :
      /\ satellites[j].workerIndex + 1 <= Len(slotNames)
      /\ slotNames[satellites[j].workerIndex + 1] = satellites[j].name

\* C28: a render frame reads, for every visible satellite, indices that lie
\* within the snapshot arrays the consumer holds.
C28_FrameReadsInBounds ==
  [][(now' = now /\ lastEvent'.type = "animate" /\ ~workerData.positions.isNull)
     => \A j \in 1..Len(satellites) :
          (j = followTarget \/ satelliteTypes[satellites[j].type])
            => /\ 3 * satellites[j].workerIndex + 3 <= Len(workerData.positions.data)
               /\ 3 * satellites[j].workerIndex + 3 <= Len(workerData.velocities.data)
               /\ meshPosition'[j] # NotANumber]_vars

\* The last call propagated an element set to its own epoch.
AtOwnEpoch ==
  /\ kepler.op = "propagateKeplerian"
  /\ kepler.input.date = kepler.input.elements.epoch

\* The periapsis state of an element set: the rotation of (a(1-e), 0) and
\* of the velocity (0, (mu/h)(1+e)) that goes with it.
PeriapsisState(elements) ==
  [position |-> ToInertial(elements, elements.a * (10 - elements.e), 0),
   velocity |-> ToInertial(elements, 0, 10 + elements.e)]

Malformed(satrec) ==
  \/ \E field \in DOMAIN satrec : ~IsNumber(satrec[field])
  \/ (IsNumber(satrec.no) /\ satrec.no.v <= 0)

\* C24: extractOrbitalElements fails with MalformedElementError, instead of
\* returning an element set, whenever a field of the record is not a number
\* or the mean motion is not positive.
C24_MalformedRecordRejected ==
  (kepler.op = "extractOrbitalElements" /\ Malformed(kepler.input))
    => (kepler.result.threw /\ kepler.result.error = "MalformedElementError")

\* C35: whenever a snapshot is sent, its positions and velocities arrays each
\* hold exactly 3 entries per tracked body, which is also the length of the
\* working buffers, whatever ticks, setTime and addSatellite came before.
C35_SnapshotSizeMatchesBuffers ==
  \A k \in SnapshotsIn(posted) :
    /\ ~positions.isNull /\ ~velocities.isNull
    /\ Len(positions.data) = 3 * Len(satrecs)
    /\ Len(velocities.data) = 3 * Len(satrecs)
    /\ Len(posted[k].positions) = Len(positions.data)
    /\ Len(posted[k].velocities) = Len(velocities.data)

\* C35 witness: a setTime has just sent the first snapshot since the set was
\* last resized, for a set of two bodies.
C35_Witness ==
  /\ lastEvent.type = "setTime"
  /\ sendsSinceResize = 1
  /\ Len(satrecs) = 2
  /\ \E k \in SnapshotsIn(posted) : Len(posted[k].positions) = 6

\* C31: whatever the order of togglePause, setSpeed and update calls, an
\* update() advances TimeController.current by no more than the wall time
\* spent unpaused since the update before it, scaled by the multiplier: wall
\* time that passed while paused is not added, with or without an update()
\* during the pause.
C31_PausedWallTimeNeverAdded ==
  [][(now' = now /\ lastEvent'.type = "update")
     => Abs(timeController'.current - timeController.current) * 10
          <= ((now - timeController.lastFrameTime) - pausedWall)
               * Abs(timeController.multiplier)]_vars

\* C32: a render frame applies to each satellite of the current list an entry
\* of a snapshot that was sent for that satellite's record: once the worker
\* has been re-created or the set rebuilt, no frame uses a snapshot sent for
\* the set before.
C32_FrameUsesSnapshotOfCurrentSet ==
  [][(lastEvent'.type = "animate" /\ ~workerData.positions.isNull)
     => \A j \in 1..Len(satellites) :
          /\ satellites[j].workerIndex + 1 <= Len(snapshotFor)
          /\ snapshotFor[satellites[j].workerIndex + 1] = satellites[j].name]_vars

\* C33: toggleConstellation returns the constellation's new loaded state: the
\* value it returns is the value of isConstellationLoaded(id) right after the
\* call, also when the preset is unknown or empty or the rebuild raises.
C33_ToggleReturnsLoadedState ==
  toggled.id # "none"
    => (~toggled.threw /\ toggled.returned = isConstellationLoaded(toggled.id))

\* C34: sampleTrackAdaptive terminates for every start and end offset and
\* returns at most 200 points.
C34_TrackTerminatesWithinCap ==
  track.op = "sampleTrackAdaptive"
    => (track.result.terminated /\ track.result.points <= maxPoints)
====
